---- MODULE Spec2Model ----
(***************************************************************************)
(* quantus_ur: the segmentation / reassembly layer of src/src/lib.rs.      *)
(*                                                                         *)
(* encode_bytes / encode_hex wrap a payload in a CBOR byte string and ask  *)
(* the UR encoder for one UR string or for the pure fragments of a         *)
(* multi-part UR; decode_bytes / decode_hex / is_complete classify the     *)
(* first string of a list, feed a fresh fountain decoder and unwrap the    *)
(* CBOR byte string.                                                       *)
(*                                                                         *)
(* Bytes are sequences over 0..255.  A UR string is a record: the text's   *)
(* letter case, its grammatical form and the fields its bytewords body     *)
(* carries.  The collaborating crates (hex, minicbor, ur, ur_parse_lib)    *)
(* are not part of the repository's sources; their operators below follow  *)
(* the behaviour the library functions called from lib.rs have.            *)
(***************************************************************************)
EXTENDS Integers, Sequences, FiniteSets, TLC

\* ------------------------------------------------------------ constants
UR_TYPE == "quantus-sign-request"
\* Variant: the bound one byte short.
MAX_FRAGMENT_LENGTH_Short == 200 - 1
MAX_FRAGMENT_LENGTH == 200

\* ------------------------------------------------------------ bounds
\* Payload byte patterns 0..MaxSeed (see Byte).
MaxSeed == 1
\* Longest list of UR strings a caller hands to decode_* / is_complete.
MaxParts == 3

\* ------------------------------------------------------------ results
\* Result<T, QuantusUrError>: Ok(v) or Err(kind, message).
Ok(v) == [ok |-> TRUE, val |-> v, kind |-> "", msg |-> ""]
Err(k, m) == [ok |-> FALSE, val |-> <<>>, kind |-> k, msg |-> m]

\* The variants of QuantusUrError.
QuantusUrError == {"HexError", "UrError", "CborError", "Incomplete"}

\* ------------------------------------------------------------ hex crate
\* Hex text is a sequence of ASCII codes.
HexDigitLower(n) == IF n < 10 THEN 48 + n ELSE 87 + n
HexDigitUpper(n) == IF n < 10 THEN 48 + n ELSE 55 + n
IsHexChar(c) == (c >= 48 /\ c <= 57) \/ (c >= 97 /\ c <= 102) \/ (c >= 65 /\ c <= 70)
HexVal(c) == IF c <= 57 THEN c - 48 ELSE IF c >= 97 THEN c - 87 ELSE c - 55

\* hex::encode: two lower-case digits per byte.
hex_encode(bytes) ==
    [i \in 1..(2 * Len(bytes)) |->
        IF i % 2 = 1 THEN HexDigitLower(bytes[(i + 1) \div 2] \div 16)
                     ELSE HexDigitLower(bytes[i \div 2] % 16)]

\* hex::decode: odd length or a character outside [0-9a-fA-F] is an error.
hex_decode(text) ==
    IF Len(text) % 2 # 0 THEN Err("HexError", "OddLength")
    ELSE IF \E i \in 1..Len(text) : ~IsHexChar(text[i])
         THEN Err("HexError", "InvalidHexCharacter")
         ELSE Ok([i \in 1..(Len(text) \div 2) |->
                     16 * HexVal(text[2 * i - 1]) + HexVal(text[2 * i])])

\* ------------------------------------------------------------ minicbor
\* Big-endian value of bytes b[from..to].
RECURSIVE BigEndian(_, _, _)
BigEndian(b, from, to) ==
    IF to < from THEN 0 ELSE 256 * BigEndian(b, from, to - 1) + b[to]

\* The head of a CBOR byte string (major type 2) of length n.
CborBytesHead(n) ==
    IF n < 24 THEN <<64 + n>>
    ELSE IF n < 256 THEN <<88, n>>
    ELSE IF n < 65536 THEN <<89, n \div 256, n % 256>>
    ELSE <<90, n \div 16777216, (n \div 65536) % 256, (n \div 256) % 256, n % 256>>

\* minicbor::to_vec(ByteVec::from(payload)): one definite-length byte string.
cbor_to_vec(payload) == Ok(CborBytesHead(Len(payload)) \o payload)

\* minicbor::Decoder::new(blob).bytes(): the first item must be a
\* definite-length byte string that lies wholly in the input; bytes after it
\* are not looked at.
cbor_bytes(blob) ==
    IF Len(blob) = 0 THEN Err("CborError", "end of input")
    ELSE LET major == blob[1] \div 32
             info  == blob[1] % 32
             extra == IF info < 24 THEN 0
                      ELSE IF info = 24 THEN 1
                      ELSE IF info = 25 THEN 2
                      ELSE IF info = 26 THEN 4
                      ELSE 8
         IN  IF major # 2 \/ info > 27 THEN Err("CborError", "type mismatch")
             ELSE IF Len(blob) < 1 + extra THEN Err("CborError", "end of input")
             ELSE LET n == IF info < 24 THEN info ELSE BigEndian(blob, 2, 1 + extra)
                  IN  IF Len(blob) < 1 + extra + n
                      THEN Err("CborError", "end of input")
                      ELSE Ok(SubSeq(blob, 2 + extra, 1 + extra + n))

\* ------------------------------------------------------------ UR strings
\* A UR string: its letter case and what the text spells.
\*   form "single":  ur:<type>/<bytewords of data>
\*   form "multi":   ur:<type>/<seq_num>-<seq_len>/<bytewords of the part>,
\*                   the part being (seq_num, seq_len, message_len, checksum, data)
\*   form "garbage": a text outside the UR grammar, such as not-a-valid-ur
\* crc_ok: the CRC-32 that closes the bytewords body matches the body.
UrText(casing, form, type, seq_num, seq_len, message_len, checksum, data, crc_ok) ==
    [casing |-> casing, form |-> form, type |-> type, seq_num |-> seq_num,
     seq_len |-> seq_len, message_len |-> message_len, checksum |-> checksum,
     data |-> data, crc_ok |-> crc_ok]

Casings == {"lower", "upper", "mixed"}

\* str::to_lowercase / str::to_uppercase on an ASCII text holding letters.
to_lowercase(s) == [s EXCEPT !.casing = "lower"]
to_uppercase(s) == [s EXCEPT !.casing = "upper"]

\* The text with its letters re-cased.
Recase(s, c) == [s EXCEPT !.casing = c]

\* CRC-32 of a message, abstracted to a position-weighted byte sum.
RECURSIVE WeightedSum(_, _, _)
WeightedSum(b, lo, hi) ==
    IF hi < lo THEN 0
    ELSE IF hi = lo THEN (lo * (b[lo] + 1)) % 65521
    ELSE LET mid == (lo + hi) \div 2
         IN  (WeightedSum(b, lo, mid) + WeightedSum(b, mid + 1, hi)) % 65521
crc32(b) == WeightedSum(b, 1, Len(b))

\* ur::ur::encode(data, type): the single-part text, lower case.
ur_encode(data, type) == UrText("lower", "single", type, 0, 0, 0, 0, data, TRUE)

\* ur::ur::decode(text): the scheme, the type and the bytewords body are
\* matched in lower case only; a text with one or two '/' after the type is
\* SinglePart or MultiPart.  The frame is the bytewords-decoded body.
ur_decode(s) ==
    IF s.casing # "lower" THEN Err("UrError", "invalid scheme or characters")
    ELSE IF s.form = "garbage" THEN Err("UrError", "invalid scheme")
    ELSE IF ~s.crc_ok THEN Err("UrError", "invalid bytewords checksum")
    ELSE IF s.form = "single" THEN Ok([kind |-> "SinglePart", decoded |-> s.data])
    ELSE Ok([kind |-> "MultiPart", decoded |-> s.data])

\* ------------------------------------------------------------ fountain encoder
DivCeil(a, b) == (a + b - 1) \div b

\* ur::fountain::fragment_length
fragment_length(data_length, max_fragment_length) ==
    DivCeil(data_length, DivCeil(data_length, max_fragment_length))

\* ur::fountain::partition: zero-pad to a multiple of the fragment length and
\* cut into chunks of that length.
partition(data, frag_len) ==
    LET padded == data \o [i \in 1..((frag_len - (Len(data) % frag_len)) % frag_len) |-> 0]
    IN  [k \in 1..(Len(padded) \div frag_len) |->
            SubSeq(padded, (k - 1) * frag_len + 1, k * frag_len)]

\* ur::Encoder::new(message, max_fragment_length, ur_type)
Encoder_new(message, max_fragment_length, ur_type) ==
    [fragments |-> partition(message, fragment_length(Len(message), max_fragment_length)),
     message_len |-> Len(message),
     checksum |-> crc32(message),
     current_sequence |-> 0,
     ur_type |-> ur_type]

\* Encoder::fragment_count: the number of pure fragments.
fragment_count(encoder) == Len(encoder.fragments)

\* What the environment makes of the encoder collaborator during one encode
\* call: no failure, a failing probe, a multi-part probe without an encoder,
\* or a failure of the k-th fragment the encoder hands out (k >= 2).
NoFault == [at |-> "none", k |-> 0]
ProbeFault == [at |-> "probe", k |-> 0]
NoEncoderFault == [at |-> "no_encoder", k |-> 0]
NextPartFault(k) == [at |-> "next_part", k |-> k]

\* Encoder::next_part: advances the sequence number and hands out the part of
\* that number.  Parts 1..fragment_count are the pure fragments, in order;
\* later parts mix fragments and are represented by their sequence number
\* alone (seq_num > seq_len, no data).
next_part(encoder, fault) ==
    LET seq == encoder.current_sequence + 1
        enc == [encoder EXCEPT !.current_sequence = seq]
        n   == Len(encoder.fragments)
    IN  IF fault.at = "next_part" /\ fault.k = seq
        THEN [encoder |-> enc, part |-> Err("UrError", "next_part failed")]
        ELSE [encoder |-> enc,
              part |-> Ok(UrText("lower", "multi", encoder.ur_type, seq, n,
                                 encoder.message_len, encoder.checksum,
                                 IF seq <= n THEN encoder.fragments[seq] ELSE <<>>,
                                 TRUE))]

\* ur_parse_lib::keystone_ur_encoder::probe_encode: a message longer than the
\* bound is multi-part, and the result carries the first part and the encoder
\* that produced it; any other message is one single-part text.
probe_encode(message, max_fragment_length, ur_type, fault) ==
    IF fault.at = "probe" THEN Err("UrError", "probe failed")
    ELSE IF Len(message) > max_fragment_length
    THEN LET first == next_part(Encoder_new(message, max_fragment_length, ur_type), fault)
         IN  IF ~first.part.ok THEN Err("UrError", first.part.msg)
             ELSE
             Ok([is_multi_part |-> TRUE,
                 data |-> first.part.val,
                 has_encoder |-> fault.at # "no_encoder",
                 encoder |-> first.encoder])
    ELSE Ok([is_multi_part |-> FALSE,
             data |-> ur_encode(message, ur_type),
             has_encoder |-> FALSE,
             encoder |-> Encoder_new(<<0>>, 1, ur_type)])

\* ------------------------------------------------------------ fountain decoder
\* Whether the session compares the type tag of a part with the type tag of
\* the first part it received.  The ur crate is not part of this repository;
\* both behaviours are admitted, and one is fixed for a whole run.
VARIABLE type_check

\* ur::ur::Decoder::default(): nothing received.  decoded holds the pure
\* fragments by index, as <<index, data>> pairs.
Decoder_default ==
    [received |-> {}, decoded |-> {}, sequence_count |-> 0, message_length |-> 0,
     checksum |-> 0, fragment_length |-> 0, ur_type |-> ""]

\* Decoder::complete
complete(d) == d.message_length # 0 /\ Cardinality(d.decoded) = d.sequence_count

\* fountain::Decoder::validate: the part agrees with the first one received.
validate(d, part) ==
    /\ part.seq_len = d.sequence_count
    /\ part.message_len = d.message_length
    /\ part.checksum = d.checksum
    /\ Len(part.data) = d.fragment_length

\* ur::ur::Decoder::receive(text): the text must decode as MultiPart; the
\* fountain decoder drops a part once complete, rejects an empty part and a
\* part that disagrees with the first, ignores a part already received and
\* stores a pure fragment under its index.  A part of another type tag than
\* the first is rejected when the session compares type tags.
receive(d, s) ==
    LET r == ur_decode(s)
    IN  IF ~r.ok THEN [decoder |-> d, result |-> r]
        ELSE IF r.val.kind # "MultiPart"
        THEN [decoder |-> d, result |-> Err("UrError", "not multi-part")]
        ELSE IF complete(d) THEN [decoder |-> d, result |-> Ok(FALSE)]
        ELSE IF s.seq_len = 0 \/ Len(s.data) = 0 \/ s.message_len = 0
        THEN [decoder |-> d, result |-> Err("UrError", "empty part")]
        ELSE IF type_check /\ d.received # {} /\ s.type # d.ur_type
        THEN [decoder |-> d, result |-> Err("UrError", "type mismatch")]
        ELSE IF d.received # {} /\ ~validate(d, s)
        THEN [decoder |-> d, result |-> Err("UrError", "inconsistent part")]
        ELSE LET d1 == IF d.received = {}
                       THEN [d EXCEPT !.ur_type = s.type,
                                      !.sequence_count = s.seq_len,
                                      !.message_length = s.message_len,
                                      !.checksum = s.checksum,
                                      !.fragment_length = Len(s.data)]
                       ELSE d
             IN  IF s.seq_num \in d1.received
                 THEN [decoder |-> d1, result |-> Ok(FALSE)]
                 ELSE [decoder |->
                          [d1 EXCEPT !.received = @ \cup {s.seq_num},
                                     !.decoded = IF s.seq_num <= s.seq_len
                                                 THEN @ \cup {<<s.seq_num - 1, s.data>>}
                                                 ELSE @],
                       result |-> Ok(TRUE)]

\* The decoded fragments 0..n-1 joined in index order.
RECURSIVE Combined(_, _)
Combined(decoded, n) ==
    IF n = 0 THEN <<>>
    ELSE Combined(decoded, n - 1) \o (CHOOSE p \in decoded : p[1] = n - 1)[2]

\* Decoder::message: None until complete; then the joined fragments cut to
\* the message length, provided the padding is zero and the checksum matches.
\* has |-> FALSE is Ok(None).
message(d) ==
    IF ~complete(d) THEN Ok([has |-> FALSE, bytes |-> <<>>])
    ELSE LET all == Combined(d.decoded, d.sequence_count)
         IN  IF Len(all) < d.message_length
                \/ \E i \in (d.message_length + 1)..Len(all) : all[i] # 0
             THEN Err("UrError", "invalid padding")
             ELSE LET m == SubSeq(all, 1, d.message_length)
                  IN  IF crc32(m) # d.checksum
                      THEN Err("UrError", "invalid checksum")
                      ELSE Ok([has |-> TRUE, bytes |-> m])

\* ------------------------------------------------------------ lib.rs: encode
\* The pull loop of encode_internal: while parts.len() < count, take the
\* encoder's next part and push it upper-cased; a failing pull ends the loop
\* with the error.
\* Variant: the loop stops one fragment early (parts.len() + 1 < count).
RECURSIVE PullLoop_StopEarly(_, _, _, _)
PullLoop_StopEarly(encoder, parts, count, fault) ==
    IF Len(parts) + 1 < count
    THEN LET np == next_part(encoder, fault)
         IN  IF ~np.part.ok
             THEN [result |-> Err("UrError", np.part.msg), encoder |-> np.encoder]
             ELSE PullLoop_StopEarly(np.encoder,
                                     Append(parts, to_uppercase(np.part.val)),
                                     count, fault)
    ELSE [result |-> Ok(parts), encoder |-> encoder]

\* Variant: the loop pulls one part too many (parts.len() <= count).
RECURSIVE PullLoop_OneMore(_, _, _, _)
PullLoop_OneMore(encoder, parts, count, fault) ==
    IF Len(parts) <= count
    THEN LET np == next_part(encoder, fault)
         IN  IF ~np.part.ok
             THEN [result |-> Err("UrError", np.part.msg), encoder |-> np.encoder]
             ELSE PullLoop_OneMore(np.encoder,
                                   Append(parts, to_uppercase(np.part.val)),
                                   count, fault)
    ELSE [result |-> Ok(parts), encoder |-> encoder]

\* Variant: each pulled part goes to the front of the list.
RECURSIVE PullLoop_Prepend(_, _, _, _)
PullLoop_Prepend(encoder, parts, count, fault) ==
    IF Len(parts) < count
    THEN LET np == next_part(encoder, fault)
         IN  IF ~np.part.ok
             THEN [result |-> Err("UrError", np.part.msg), encoder |-> np.encoder]
             ELSE PullLoop_Prepend(np.encoder,
                                   <<to_uppercase(np.part.val)>> \o parts,
                                   count, fault)
    ELSE [result |-> Ok(parts), encoder |-> encoder]

\* Variant: the pulled parts are pushed as the encoder wrote them.
RECURSIVE PullLoop_NoUpper(_, _, _, _)
PullLoop_NoUpper(encoder, parts, count, fault) ==
    IF Len(parts) < count
    THEN LET np == next_part(encoder, fault)
         IN  IF ~np.part.ok
             THEN [result |-> Err("UrError", np.part.msg), encoder |-> np.encoder]
             ELSE PullLoop_NoUpper(np.encoder, Append(parts, np.part.val),
                                   count, fault)
    ELSE [result |-> Ok(parts), encoder |-> encoder]

\* Variant: a failing pull returns the parts collected so far.
RECURSIVE PullLoop_KeepPartial(_, _, _, _)
PullLoop_KeepPartial(encoder, parts, count, fault) ==
    IF Len(parts) < count
    THEN LET np == next_part(encoder, fault)
         IN  IF ~np.part.ok
             THEN [result |-> Ok(parts), encoder |-> np.encoder]
             ELSE PullLoop_KeepPartial(np.encoder,
                                       Append(parts, to_uppercase(np.part.val)),
                                       count, fault)
    ELSE [result |-> Ok(parts), encoder |-> encoder]

RECURSIVE PullLoop(_, _, _, _)
PullLoop(encoder, parts, count, fault) ==
    IF Len(parts) < count
    THEN LET np == next_part(encoder, fault)
         IN  IF ~np.part.ok
             THEN [result |-> Err("UrError", np.part.msg), encoder |-> np.encoder]
             ELSE PullLoop(np.encoder, Append(parts, to_uppercase(np.part.val)),
                           count, fault)
    ELSE [result |-> Ok(parts), encoder |-> encoder]

\* One run of encode_internal: its result, and what the probe and the
\* encoder reported on the way (is_multi_part, fragment_count, the number of
\* parts the encoder handed out in all).
encode_run(payload, fault) ==
    LET cbor == cbor_to_vec(payload)
        none == [is_multi_part |-> FALSE, count |-> 0, pulled |-> 0]
    IN  IF ~cbor.ok THEN [result |-> Err("CborError", cbor.msg), probe |-> none]
        ELSE
        LET result == probe_encode(cbor.val, MAX_FRAGMENT_LENGTH, UR_TYPE, fault)
        IN  IF ~result.ok THEN [result |-> Err("UrError", result.msg), probe |-> none]
            ELSE IF ~result.val.is_multi_part
            THEN [result |-> Ok(<<to_uppercase(result.val.data)>>), probe |-> none]
            ELSE IF ~result.val.has_encoder
            THEN [result |-> Err("UrError", "Multi-part but no encoder returned"),
                  probe |-> [is_multi_part |-> TRUE, count |-> 0, pulled |-> 1]]
            ELSE
            LET encoder == result.val.encoder
                count   == fragment_count(encoder)
                loop    == PullLoop(encoder, <<to_uppercase(result.val.data)>>,
                                    count, fault)
            IN  [result |-> loop.result,
                 probe |-> [is_multi_part |-> TRUE, count |-> count,
                            pulled |-> loop.encoder.current_sequence]]

encode_internal(payload, fault) == encode_run(payload, fault).result

encode_bytes(payload, fault) == encode_internal(payload, fault)

encode_hex(hex_payload, fault) ==
    LET payload == hex_decode(hex_payload)
    IN  IF ~payload.ok THEN payload ELSE encode_internal(payload.val, fault)

\* ------------------------------------------------------------ lib.rs: decode
\* The feed loop of decode_internal: every entry from index i on, lower-cased,
\* goes to the session in list order; the first failing receive ends the loop.
\* Variant: the entries reach the session as given, not lower-cased.
RECURSIVE ReceiveAll_NoLower(_, _, _)
ReceiveAll_NoLower(d, ur_parts, i) ==
    IF i > Len(ur_parts) THEN [result |-> Ok(TRUE), decoder |-> d]
    ELSE LET r == receive(d, ur_parts[i])
         IN  IF ~r.result.ok
             THEN [result |-> Err("UrError", r.result.msg), decoder |-> r.decoder]
             ELSE ReceiveAll_NoLower(r.decoder, ur_parts, i + 1)

\* Variant: the entry at the head of the list, already classified, is not fed.
RECURSIVE ReceiveAll_SkipFirst(_, _, _)
ReceiveAll_SkipFirst(d, ur_parts, i) ==
    IF i > Len(ur_parts) THEN [result |-> Ok(TRUE), decoder |-> d]
    ELSE IF i = 1 THEN ReceiveAll_SkipFirst(d, ur_parts, 2)
    ELSE LET r == receive(d, to_lowercase(ur_parts[i]))
         IN  IF ~r.result.ok
             THEN [result |-> Err("UrError", r.result.msg), decoder |-> r.decoder]
             ELSE ReceiveAll_SkipFirst(r.decoder, ur_parts, i + 1)

\* Variant: an entry the session rejects is passed over and the feed goes on.
RECURSIVE ReceiveAll_SkipRejected(_, _, _)
ReceiveAll_SkipRejected(d, ur_parts, i) ==
    IF i > Len(ur_parts) THEN [result |-> Ok(TRUE), decoder |-> d]
    ELSE ReceiveAll_SkipRejected(receive(d, to_lowercase(ur_parts[i])).decoder,
                                 ur_parts, i + 1)

RECURSIVE ReceiveAll(_, _, _)
ReceiveAll(d, ur_parts, i) ==
    IF i > Len(ur_parts) THEN [result |-> Ok(TRUE), decoder |-> d]
    ELSE LET r == receive(d, to_lowercase(ur_parts[i]))
         IN  IF ~r.result.ok
             THEN [result |-> Err("UrError", r.result.msg), decoder |-> r.decoder]
             ELSE ReceiveAll(r.decoder, ur_parts, i + 1)

\* decode_internal with two places open: the error an empty list gets, and
\* whether the session's completeness is checked before the message is taken.
decode_internal_variant(ur_parts, empty_error, check_complete) ==
    IF Len(ur_parts) = 0 THEN empty_error
    ELSE
    LET first == to_lowercase(ur_parts[1])
        kd    == ur_decode(first)
    IN  IF ~kd.ok THEN Err("UrError", kd.msg)
        ELSE IF kd.val.kind = "SinglePart"
        THEN LET bytes == cbor_bytes(kd.val.decoded)
             IN  IF ~bytes.ok THEN Err("CborError", bytes.msg) ELSE Ok(bytes.val)
        ELSE
        LET fed == ReceiveAll(Decoder_default, ur_parts, 1)
        IN  IF ~fed.result.ok THEN fed.result
            ELSE IF check_complete /\ ~complete(fed.decoder)
            THEN Err("Incomplete", "Decoding incomplete")
            ELSE
            LET m == message(fed.decoder)
            IN  IF ~m.ok THEN Err("UrError", m.msg)
                ELSE IF ~m.val.has THEN Err("UrError", "No message")
                ELSE LET bytes == cbor_bytes(m.val.bytes)
                     IN  IF ~bytes.ok THEN Err("CborError", bytes.msg)
                         ELSE Ok(bytes.val)

\* Variant: the completeness check is missing.
decode_internal_NoCompleteCheck(ur_parts) ==
    decode_internal_variant(ur_parts, Err("UrError", "No UR parts provided"), FALSE)

\* Variant: an empty list is reported as Incomplete.
decode_internal_EmptyIncomplete(ur_parts) ==
    decode_internal_variant(ur_parts, Err("Incomplete", "Decoding incomplete"), TRUE)

\* Variant: every entry of the list is classified before the first one is
\* looked at.
decode_internal_ParseAll(ur_parts) ==
    IF \E i \in 2..Len(ur_parts) : ~ur_decode(to_lowercase(ur_parts[i])).ok
    THEN Err("UrError", "invalid scheme")
    ELSE decode_internal_variant(ur_parts, Err("UrError", "No UR parts provided"), TRUE)

decode_internal(ur_parts) ==
    IF Len(ur_parts) = 0 THEN Err("UrError", "No UR parts provided")
    ELSE
    LET first == to_lowercase(ur_parts[1])
        kd    == ur_decode(first)
    IN  IF ~kd.ok THEN Err("UrError", kd.msg)
        ELSE IF kd.val.kind = "SinglePart"
        THEN LET bytes == cbor_bytes(kd.val.decoded)
             IN  IF ~bytes.ok THEN Err("CborError", bytes.msg) ELSE Ok(bytes.val)
        ELSE
        LET fed == ReceiveAll(Decoder_default, ur_parts, 1)
        IN  IF ~fed.result.ok THEN fed.result
            ELSE IF ~complete(fed.decoder) THEN Err("Incomplete", "Decoding incomplete")
            ELSE
            LET m == message(fed.decoder)
            IN  IF ~m.ok THEN Err("UrError", m.msg)
                ELSE IF ~m.val.has THEN Err("UrError", "No message")
                ELSE LET bytes == cbor_bytes(m.val.bytes)
                     IN  IF ~bytes.ok THEN Err("CborError", bytes.msg)
                         ELSE Ok(bytes.val)

\* Variant: the hex text is written in upper-case digits.
decode_hex_Upper(ur_parts) ==
    LET bytes == decode_internal(ur_parts)
    IN  IF ~bytes.ok THEN bytes
        ELSE Ok([i \in 1..(2 * Len(bytes.val)) |->
                    IF i % 2 = 1 THEN HexDigitUpper(bytes.val[(i + 1) \div 2] \div 16)
                                 ELSE HexDigitUpper(bytes.val[i \div 2] % 16)])

decode_hex(ur_parts) ==
    LET bytes == decode_internal(ur_parts)
    IN  IF ~bytes.ok THEN bytes ELSE Ok(hex_encode(bytes.val))

decode_bytes(ur_parts) == decode_internal(ur_parts)

\* ------------------------------------------------------------ lib.rs: is_complete
\* The feed loop of is_complete: FALSE at the first failing receive, else the
\* session's completeness once every entry is fed.
\* Variant: the loop's end answers true, not the session's completeness.
RECURSIVE ProbeAll_TrueAtEnd(_, _, _)
ProbeAll_TrueAtEnd(d, ur_parts, i) ==
    IF i > Len(ur_parts) THEN TRUE
    ELSE LET r == receive(d, to_lowercase(ur_parts[i]))
         IN  IF ~r.result.ok THEN FALSE
             ELSE ProbeAll_TrueAtEnd(r.decoder, ur_parts, i + 1)

\* Variant: a failing receive is skipped, not answered with false.
RECURSIVE ProbeAll_IgnoreErrors(_, _, _)
ProbeAll_IgnoreErrors(d, ur_parts, i) ==
    IF i > Len(ur_parts) THEN complete(d)
    ELSE ProbeAll_IgnoreErrors(receive(d, to_lowercase(ur_parts[i])).decoder,
                               ur_parts, i + 1)

\* Variant: the list is complete once it holds as many strings as the
\* sequence has parts.
RECURSIVE ProbeAll_CountEntries(_, _, _)
ProbeAll_CountEntries(d, ur_parts, i) ==
    IF i > Len(ur_parts) THEN Len(ur_parts) >= d.sequence_count
    ELSE LET r == receive(d, to_lowercase(ur_parts[i]))
         IN  IF ~r.result.ok THEN FALSE
             ELSE ProbeAll_CountEntries(r.decoder, ur_parts, i + 1)

\* Variant: the loop ends as soon as the session is complete.
RECURSIVE ProbeAll_StopAtComplete(_, _, _)
ProbeAll_StopAtComplete(d, ur_parts, i) ==
    IF i > Len(ur_parts) \/ complete(d) THEN complete(d)
    ELSE LET r == receive(d, to_lowercase(ur_parts[i]))
         IN  IF ~r.result.ok THEN FALSE
             ELSE ProbeAll_StopAtComplete(r.decoder, ur_parts, i + 1)

RECURSIVE ProbeAll(_, _, _)
ProbeAll(d, ur_parts, i) ==
    IF i > Len(ur_parts) THEN complete(d)
    ELSE LET r == receive(d, to_lowercase(ur_parts[i]))
         IN  IF ~r.result.ok THEN FALSE
             ELSE ProbeAll(r.decoder, ur_parts, i + 1)

is_complete(ur_parts) ==
    IF Len(ur_parts) = 0 THEN FALSE
    ELSE
    LET first == to_lowercase(ur_parts[1])
        kd    == ur_decode(first)
    IN  IF ~kd.ok THEN FALSE
        ELSE IF kd.val.kind = "SinglePart" THEN TRUE
        ELSE ProbeAll(Decoder_default, ur_parts, 1)

\* ------------------------------------------------------------ callers
\* The library holds no state of its own between calls.  The state is the
\* caller's: the payload it last encoded and how, the Fragment Set it got,
\* the letter case in which strings reach it, the list of UR strings it has
\* collected, and the answer to its last decode_bytes / decode_hex /
\* is_complete call on that list.
VARIABLES via, payload, hex_payload, encoded, probe, casing, ur_parts, call

\* The environment of an encode call: what the encoder collaborator does
\* during it.
VARIABLE fault

\* Calls in progress, one per caller, each with the session it owns, and the
\* session the call that returned last has dropped.
VARIABLES running, leftover

vars == <<via, payload, hex_payload, encoded, probe, casing, ur_parts, call,
          type_check, fault, running, leftover>>

\* What a caller working alone, with a collaborator that does not fail, never
\* touches.
others == <<type_check, fault, running, leftover>>

\* Byte i of the payload pattern `seed`: 0 is all zero, 1 is 0, 1, 2, ...
\* (the pattern of the multi-part tests).
Byte(seed, i) == (seed * i + 127 * (seed \div 2)) % 256
Payload(n, seed) == [i \in 1..n |-> Byte(seed, i - 1)]

\* Payload lengths: empty, short, around the one-byte CBOR head (23 / 24),
\* around the single-part limit (CBOR blob of 200 / 201 bytes), and three
\* fragments (CBOR blob of 401 bytes).
PayloadLens == {0, 15, 23, 24, 198, 199, 398}
Payloads == {Payload(n, s) : n \in PayloadLens, s \in 0..MaxSeed}

\* Hex texts: payloads of one and of two fragments (the tests' 250 bytes) in
\* lower-case and in upper-case digits, a text of odd length ("0") and a text with a non-hex
\* character ("0g").
HexUpper(bytes) ==
    [i \in 1..(2 * Len(bytes)) |->
        IF i % 2 = 1 THEN HexDigitUpper(bytes[(i + 1) \div 2] \div 16)
                     ELSE HexDigitUpper(bytes[i \div 2] % 16)]
HexLens == {0, 15, 250}
HexPayloads == {Payload(n, s) : n \in HexLens, s \in 0..MaxSeed}
HexTexts ==
    {hex_encode(p) : p \in HexPayloads} \cup {HexUpper(p) : p \in HexPayloads}
        \cup {<<48>>, <<48, 103>>}

\* Strings that come from no encode call: a text outside the grammar, and a
\* well-formed single-part UR whose body is the CBOR integer 1, not a byte
\* string.
Garbage == UrText("lower", "garbage", "", 0, 0, 0, 0, <<>>, FALSE)
NotBytesSingle == ur_encode(<<1>>, UR_TYPE)
Foreign == {Garbage, NotBytesSingle}

\* What the caller can put in its list: the strings of the Fragment Set it
\* holds and the foreign strings.
Pool ==
    (IF encoded.ok THEN {encoded.val[i] : i \in 1..Len(encoded.val)} ELSE {})
        \cup Foreign

\* The letter case in which the strings of a list reach the caller: all
\* upper (as emitted), all lower, all mixed, or a different case per entry.
CasingPatterns == {"upper", "lower", "mixed", "rotate"}
CaseAt(pattern, i) ==
    IF pattern # "rotate" THEN pattern
    ELSE IF i % 3 = 1 THEN "lower" ELSE IF i % 3 = 2 THEN "upper" ELSE "mixed"

NoProbe == [is_multi_part |-> FALSE, count |-> 0, pulled |-> 0]
NoCall == [fn |-> "none", result |-> Err("", ""), complete |-> FALSE]

\* The callers that may have a call in progress at the same time, and a
\* caller with none.
Callers == {"a", "b"}
NoEncoder == Encoder_new(<<0>>, 1, UR_TYPE)
Idle == [pc |-> "idle", fn |-> "none", arg |-> <<>>, list |-> <<>>, i |-> 0,
         seen |-> {}, d |-> Decoder_default, e |-> NoEncoder,
         result |-> Err("", ""), complete |-> FALSE]

\* Every string that reaches this caller carries the library's type tag, so
\* the session's treatment of type tags plays no part.
Init ==
    /\ via = "none"
    /\ payload = <<>>
    /\ hex_payload = <<>>
    /\ encoded = Err("", "nothing encoded")
    /\ probe = NoProbe
    /\ casing = "upper"
    /\ ur_parts = <<>>
    /\ call = NoCall
    /\ type_check = FALSE
    /\ fault = NoFault
    /\ running = [c \in Callers |-> Idle]
    /\ leftover = Decoder_default

\* A caller that holds no list and no answer.
Fresh == ur_parts = <<>> /\ call = NoCall /\ casing = "upper"

\* encode_bytes(p), by a fresh caller.
EncodeBytes ==
    /\ Fresh
    /\ \E p \in Payloads :
        LET run == encode_run(p, NoFault)
        IN  /\ via' = "bytes"
            /\ payload' = p
            /\ hex_payload' = <<>>
            /\ encoded' = encode_bytes(p, NoFault)
            /\ probe' = run.probe
    /\ UNCHANGED <<casing, ur_parts, call>>
    /\ UNCHANGED others

\* encode_hex(h), by a fresh caller.
EncodeHex ==
    /\ Fresh
    /\ \E h \in HexTexts :
        LET bytes == hex_decode(h)
            run   == encode_run(bytes.val, NoFault)
        IN  /\ via' = "hex"
            /\ payload' = bytes.val
            /\ hex_payload' = h
            /\ encoded' = encode_hex(h, NoFault)
            /\ probe' = IF bytes.ok THEN run.probe ELSE NoProbe
    /\ UNCHANGED <<casing, ur_parts, call>>
    /\ UNCHANGED others

\* The letter case of the strings the caller is about to collect.
ChooseCasing ==
    /\ ur_parts = <<>>
    /\ call = NoCall
    /\ \E c \in CasingPatterns : casing' = c
    /\ UNCHANGED <<via, payload, hex_payload, encoded, probe, ur_parts, call>>
    /\ UNCHANGED others

\* The caller adds a string to its list.
Supply ==
    /\ Len(ur_parts) < MaxParts
    /\ \E s \in Pool :
        ur_parts' = Append(ur_parts, Recase(s, CaseAt(casing, Len(ur_parts) + 1)))
    /\ call' = NoCall
    /\ UNCHANGED <<via, payload, hex_payload, encoded, probe, casing>>
    /\ UNCHANGED others

\* The caller starts over.
Clear ==
    /\ ~Fresh
    /\ ur_parts' = <<>>
    /\ call' = NoCall
    /\ casing' = "upper"
    /\ UNCHANGED <<via, payload, hex_payload, encoded, probe>>
    /\ UNCHANGED others

\* decode_bytes(ur_parts)
DecodeBytes ==
    /\ call' = [fn |-> "decode_bytes", result |-> decode_bytes(ur_parts),
                complete |-> FALSE]
    /\ UNCHANGED <<via, payload, hex_payload, encoded, probe, casing, ur_parts>>
    /\ UNCHANGED others

\* decode_hex(ur_parts)
DecodeHex ==
    /\ call' = [fn |-> "decode_hex", result |-> decode_hex(ur_parts),
                complete |-> FALSE]
    /\ UNCHANGED <<via, payload, hex_payload, encoded, probe, casing, ur_parts>>
    /\ UNCHANGED others

\* is_complete(ur_parts)
IsComplete ==
    /\ call' = [fn |-> "is_complete", result |-> Err("", ""),
                complete |-> is_complete(ur_parts)]
    /\ UNCHANGED <<via, payload, hex_payload, encoded, probe, casing, ur_parts>>
    /\ UNCHANGED others

Next ==
    \/ EncodeBytes
    \/ EncodeHex
    \/ ChooseCasing
    \/ Supply
    \/ Clear
    \/ DecodeBytes
    \/ DecodeHex
    \/ IsComplete

Spec == Init /\ [][Next]_vars

\* ------------------------------------------------------------ strings of any origin
\* A caller that holds the two-fragment set of one payload and meets, besides
\* its fragments, strings that the decode functions reject or that belong
\* elsewhere.
WidePayload == Payload(199, 1)
WideSet == encode_bytes(WidePayload, NoFault).val

\* The single-part string of another payload.
OtherSingle == encode_bytes(Payload(15, 1), NoFault).val[1]

\* A multi-part string whose closing bytewords checksum does not match.
BadCrc(s) == [s EXCEPT !.crc_ok = FALSE]

\* A multi-part string of another type tag.
WrongType(s) == [s EXCEPT !.type = "other-type"]

\* A well-formed multi-part string whose fragment data differs in its first
\* byte: it agrees with the set in counts, lengths and message checksum, and
\* the message joined from it does not have that checksum.
Tampered(s) == [s EXCEPT !.data = [@ EXCEPT ![1] = (@ + 1) % 256]]

\* The first fragment of a longer message.
Stranger ==
    next_part(Encoder_new(cbor_to_vec(Payload(398, 1)).val, MAX_FRAGMENT_LENGTH,
                          UR_TYPE), NoFault).part.val

\* The two fragments of a message that is not a CBOR byte string.
NotBytesEncoder == Encoder_new(Payload(201, 1), MAX_FRAGMENT_LENGTH, UR_TYPE)
NotBytesSet ==
    {next_part([NotBytesEncoder EXCEPT !.current_sequence = k], NoFault).part.val :
        k \in {0, 1}}

WidePool ==
    {WideSet[i] : i \in 1..Len(WideSet)}
        \cup {OtherSingle, NotBytesSingle, Garbage, Stranger}
        \cup {BadCrc(WideSet[2]), WrongType(WideSet[2]), Tampered(WideSet[2])}
        \cup NotBytesSet

InitWide ==
    /\ via = "bytes"
    /\ payload = WidePayload
    /\ hex_payload = <<>>
    /\ encoded = encode_bytes(WidePayload, NoFault)
    /\ probe = encode_run(WidePayload, NoFault).probe
    /\ casing = "upper"
    /\ ur_parts = <<>>
    /\ call = NoCall
    /\ type_check \in BOOLEAN
    /\ fault = NoFault
    /\ running = [c \in Callers |-> Idle]
    /\ leftover = Decoder_default

\* The caller adds a string to its list, in the letter case it came in.
SupplyWide ==
    /\ Len(ur_parts) < MaxParts
    /\ \E s \in WidePool : ur_parts' = Append(ur_parts, s)
    /\ call' = NoCall
    /\ UNCHANGED <<via, payload, hex_payload, encoded, probe, casing>>
    /\ UNCHANGED others

NextWide ==
    \/ SupplyWide
    \/ Clear
    \/ DecodeBytes
    \/ IsComplete

SpecWide == InitWide /\ [][NextWide]_vars

\* ------------------------------------------------------------ a failing encoder
\* What the encoder collaborator may do during an encode call: nothing wrong,
\* fail the probe, report multi-part without handing over an encoder, or fail
\* the k-th part it is asked for.
Faults ==
    {NoFault, ProbeFault, NoEncoderFault} \cup {NextPartFault(k) : k \in 1..MaxParts}

\* encode_bytes(p) with a collaborator behaving as f.
EncodeBytesFaulty ==
    /\ via = "none"
    /\ \E p \in Payloads, f \in Faults :
        /\ via' = "bytes"
        /\ payload' = p
        /\ hex_payload' = <<>>
        /\ encoded' = encode_bytes(p, f)
        /\ probe' = encode_run(p, f).probe
        /\ fault' = f
    /\ UNCHANGED <<casing, ur_parts, call, type_check, running, leftover>>

\* encode_hex(h) with a collaborator behaving as f.
EncodeHexFaulty ==
    /\ via = "none"
    /\ \E h \in HexTexts, f \in Faults :
        LET bytes == hex_decode(h)
        IN  /\ via' = "hex"
            /\ payload' = bytes.val
            /\ hex_payload' = h
            /\ encoded' = encode_hex(h, f)
            /\ probe' = IF bytes.ok THEN encode_run(bytes.val, f).probe ELSE NoProbe
            /\ fault' = f
    /\ UNCHANGED <<casing, ur_parts, call, type_check, running, leftover>>

\* The caller drops what the encode call returned.
Discard ==
    /\ via # "none"
    /\ via' = "none"
    /\ payload' = <<>>
    /\ hex_payload' = <<>>
    /\ encoded' = Err("", "nothing encoded")
    /\ probe' = NoProbe
    /\ fault' = NoFault
    /\ UNCHANGED <<casing, ur_parts, call, type_check, running, leftover>>

NextFault ==
    \/ EncodeBytesFaulty
    \/ EncodeHexFaulty
    \/ Discard

SpecFault == Init /\ [][NextFault]_vars

\* ------------------------------------------------------------ calls in progress
\* Two callers share one three-fragment set and call encode_bytes,
\* decode_bytes and is_complete, each call advancing one collaborator call at
\* a time, so that calls overlap and follow one another in every way.
CallPayload == Payload(398, 1)
CallPayloads == {Payload(15, 1), WidePayload}

\* The lists the callers pass: the first k fragments of the set, the
\* remaining ones, the whole set, and no string at all.
CallLists ==
    {SubSeq(encoded.val, 1, k) : k \in 1..Len(encoded.val)}
        \cup {SubSeq(encoded.val, k + 1, Len(encoded.val)) : k \in 0..Len(encoded.val)}

\* let mut d = ur::ur::Decoder::default(): the session a call starts with,
\* whatever session the call that returned last has dropped.
\* Variant: the call goes on with the session the last call dropped.
NewSession_Reuse(dropped) == dropped

NewSession(dropped) == Decoder_default

\* What decode_internal makes of the session once every entry is fed.
Extract(d) ==
    IF ~complete(d) THEN Err("Incomplete", "Decoding incomplete")
    ELSE LET m == message(d)
         IN  IF ~m.ok THEN Err("UrError", m.msg)
             ELSE IF ~m.val.has THEN Err("UrError", "No message")
             ELSE LET bytes == cbor_bytes(m.val.bytes)
                  IN  IF ~bytes.ok THEN Err("CborError", bytes.msg)
                      ELSE Ok(bytes.val)

InitCalls ==
    /\ via = "bytes"
    /\ payload = CallPayload
    /\ hex_payload = <<>>
    /\ encoded = encode_bytes(CallPayload, NoFault)
    /\ probe = encode_run(CallPayload, NoFault).probe
    /\ casing = "upper"
    /\ ur_parts = <<>>
    /\ call = NoCall
    /\ type_check = FALSE
    /\ fault = NoFault
    /\ running = [c \in Callers |-> Idle]
    /\ leftover = Decoder_default

\* A call of decode_bytes or is_complete up to its feed loop: the empty list
\* and the classification of the first entry are settled at once; a
\* multi-part list gets its session.
Begin(c) ==
    /\ running[c].pc = "idle"
    /\ \E fn \in {"decode_bytes", "is_complete"}, list \in CallLists :
        LET kd   == ur_decode(to_lowercase(list[1]))
            this == [Idle EXCEPT !.fn = fn, !.list = list, !.seen = leftover.received]
        IN  running' = [running EXCEPT ![c] =
                IF Len(list) = 0
                THEN [this EXCEPT !.pc = "done",
                                  !.result = Err("UrError", "No UR parts provided")]
                ELSE IF ~kd.ok
                THEN [this EXCEPT !.pc = "done", !.result = Err("UrError", kd.msg)]
                ELSE IF kd.val.kind = "SinglePart"
                THEN [this EXCEPT !.pc = "done", !.complete = TRUE,
                                  !.result = LET bytes == cbor_bytes(kd.val.decoded)
                                             IN  IF ~bytes.ok
                                                 THEN Err("CborError", bytes.msg)
                                                 ELSE Ok(bytes.val)]
                ELSE [this EXCEPT !.pc = "feeding", !.i = 1,
                                  !.d = NewSession(leftover)]]
    /\ UNCHANGED <<via, payload, hex_payload, encoded, probe, casing, ur_parts, call>>
    /\ UNCHANGED <<type_check, fault, leftover>>

\* One turn of the feed loop: the next entry goes to the call's session; a
\* rejected entry ends the call and the session is dropped.
Feed(c) ==
    /\ running[c].pc = "feeding"
    /\ running[c].i <= Len(running[c].list)
    /\ LET r == receive(running[c].d, to_lowercase(running[c].list[running[c].i]))
       IN  IF r.result.ok
           THEN /\ running' = [running EXCEPT ![c].d = r.decoder, ![c].i = @ + 1]
                /\ UNCHANGED leftover
           ELSE /\ running' = [running EXCEPT ![c].pc = "done",
                                              ![c].d = Decoder_default,
                                              ![c].result = Err("UrError", r.result.msg)]
                /\ leftover' = r.decoder
    /\ UNCHANGED <<via, payload, hex_payload, encoded, probe, casing, ur_parts, call>>
    /\ UNCHANGED <<type_check, fault>>

\* The end of the feed loop: the answer comes from the call's session, which
\* is dropped.
Finish(c) ==
    /\ running[c].pc = "feeding"
    /\ running[c].i > Len(running[c].list)
    /\ running' = [running EXCEPT ![c].pc = "done",
                                  ![c].d = Decoder_default,
                                  ![c].complete = complete(running[c].d),
                                  ![c].result = Extract(running[c].d)]
    /\ leftover' = running[c].d
    /\ UNCHANGED <<via, payload, hex_payload, encoded, probe, casing, ur_parts, call>>
    /\ UNCHANGED <<type_check, fault>>

\* A call of encode_bytes up to its pull loop.
BeginEncode(c) ==
    /\ running[c].pc = "idle"
    /\ \E p \in CallPayloads :
        LET result == probe_encode(cbor_to_vec(p).val, MAX_FRAGMENT_LENGTH, UR_TYPE,
                                   NoFault)
            this   == [Idle EXCEPT !.fn = "encode_bytes", !.arg = p,
                                   !.seen = leftover.received]
        IN  running' = [running EXCEPT ![c] =
                IF ~result.val.is_multi_part
                THEN [this EXCEPT !.pc = "done",
                                  !.result = Ok(<<to_uppercase(result.val.data)>>)]
                ELSE [this EXCEPT !.pc = "pulling", !.e = result.val.encoder,
                                  !.list = <<to_uppercase(result.val.data)>>]]
    /\ UNCHANGED <<via, payload, hex_payload, encoded, probe, casing, ur_parts, call>>
    /\ UNCHANGED <<type_check, fault, leftover>>

\* One turn of the pull loop, or its end.
Pull(c) ==
    /\ running[c].pc = "pulling"
    /\ IF Len(running[c].list) < fragment_count(running[c].e)
       THEN LET np == next_part(running[c].e, NoFault)
            IN  running' = [running EXCEPT
                               ![c].e = np.encoder,
                               ![c].list = Append(@, to_uppercase(np.part.val))]
       ELSE running' = [running EXCEPT ![c].pc = "done", ![c].e = NoEncoder,
                                       ![c].list = <<>>,
                                       ![c].result = Ok(running[c].list)]
    /\ UNCHANGED <<via, payload, hex_payload, encoded, probe, casing, ur_parts, call>>
    /\ UNCHANGED <<type_check, fault, leftover>>

\* The caller takes the answer.
Return(c) ==
    /\ running[c].pc = "done"
    /\ running' = [running EXCEPT ![c] = Idle]
    /\ UNCHANGED <<via, payload, hex_payload, encoded, probe, casing, ur_parts, call>>
    /\ UNCHANGED <<type_check, fault, leftover>>

NextCalls ==
    \/ \E c \in Callers : Begin(c)
    \/ \E c \in Callers : Feed(c)
    \/ \E c \in Callers : Finish(c)
    \/ \E c \in Callers : BeginEncode(c)
    \/ \E c \in Callers : Pull(c)
    \/ \E c \in Callers : Return(c)

SpecCalls == InitCalls /\ [][NextCalls]_vars

\* ------------------------------------------------------------ properties
\* The list with every string lower-cased: two lists with the same LowerAll
\* spell the same texts up to letter case.
LowerAll(list) == [i \in 1..Len(list) |-> to_lowercase(list[i])]
RecaseAll(list, c) == [i \in 1..Len(list) |-> Recase(list[i], c)]

\* The caller holds a Fragment Set, of n strings.
HasSet == via # "none" /\ encoded.ok
SetSize == Len(encoded.val)
MultiPartSet == HasSet /\ SetSize > 1

\* The caller's list spells the first k strings of the Fragment Set, in
\* emission order.
IsPrefix(k) ==
    /\ k \in 1..SetSize
    /\ LowerAll(ur_parts) = LowerAll(SubSeq(encoded.val, 1, k))

\* The caller's list spells the whole Fragment Set in some order.
IsPermutation ==
    /\ Len(ur_parts) = SetSize
    /\ {to_lowercase(ur_parts[i]) : i \in 1..Len(ur_parts)}
          = {to_lowercase(encoded.val[i]) : i \in 1..SetSize}

\* C1: encode_bytes succeeds on every payload (empty, one fragment, several),
\* and decode_bytes of the list it returned, as returned, gives the payload
\* back; the same holds for the list encode_hex returned for the bytes its
\* hex text spells.
C1_RoundTrip ==
    /\ via = "bytes" => encoded.ok
    /\ (HasSet /\ call.fn = "decode_bytes" /\ ur_parts = encoded.val)
          => call.result = Ok(payload)

C1_Witness ==
    /\ via = "bytes"
    /\ Len(payload) = 398
    /\ SetSize = 3
    /\ ur_parts = encoded.val
    /\ call.fn = "decode_bytes"
    /\ call.result = Ok(payload)

\* C2: on a multi-part Fragment Set of n strings, is_complete is false on
\* every prefix of 1 <= k < n strings in emission order and true on all n.
C2_CompletenessMonotone ==
    (MultiPartSet /\ call.fn = "is_complete")
        => \A k \in 1..SetSize : IsPrefix(k) => (call.complete <=> k = SetSize)

C2_Witness ==
    /\ MultiPartSet
    /\ SetSize = 3
    /\ IsPrefix(2)
    /\ call.fn = "is_complete"
    /\ ~call.complete

\* C3: decode_bytes and decode_hex on a prefix of 1 <= k < n strings of a
\* multi-part Fragment Set fail with Incomplete: no bytes, no other error.
C3_PrefixIncomplete ==
    (MultiPartSet /\ call.fn \in {"decode_bytes", "decode_hex"})
        => \A k \in 1..(SetSize - 1) :
              IsPrefix(k) => (~call.result.ok /\ call.result.kind = "Incomplete")

C3_Witness ==
    /\ MultiPartSet
    /\ SetSize = 3
    /\ IsPrefix(2)
    /\ call.fn = "decode_bytes"
    /\ call.result.kind = "Incomplete"

\* C4 as claimed: decode_bytes and decode_hex on the empty list fail with an
\* error kind of their own, none of the kinds the other failures have.
C4_EmptyInputOwnKind ==
    (call.fn \in {"decode_bytes", "decode_hex"} /\ ur_parts = <<>>)
        => (~call.result.ok /\ call.result.kind \notin QuantusUrError)

\* C4, amended: decode_bytes and decode_hex on the empty list fail with
\* UrError, the kind UR decoding failures have, with the message
\* "No UR parts provided"; never Incomplete, CborError or HexError.
C4_EmptyInputUrError ==
    (call.fn \in {"decode_bytes", "decode_hex"} /\ ur_parts = <<>>)
        => /\ ~call.result.ok
           /\ call.result.kind = "UrError"
           /\ call.result.msg = "No UR parts provided"

C4_Witness ==
    /\ call.fn = "decode_bytes"
    /\ ur_parts = <<>>
    /\ call.result.kind = "UrError"

\* A string no receive accepts, whatever the session holds: one the grammar
\* decoder rejects, or a single-part one.
Rejected(s) ==
    LET kd == ur_decode(to_lowercase(s))
    IN  ~kd.ok \/ kd.val.kind = "SinglePart"

FirstKind ==
    LET kd == ur_decode(to_lowercase(ur_parts[1]))
    IN  IF kd.ok THEN kd.val.kind ELSE "error"

\* C5: is_complete answers with a boolean for every list: false for the empty
\* list, false when the first string cannot be classified, false when the
\* first is MultiPart and some string of the list is rejected by receive; and
\* true when the first is SinglePart, whether or not its body unwraps as a
\* CBOR byte string (no extraction is attempted).
C5_ProberNeverFails ==
    call.fn = "is_complete"
        => /\ call.complete \in BOOLEAN
           /\ ur_parts = <<>> => ~call.complete
           /\ (ur_parts # <<>> /\ FirstKind = "error") => ~call.complete
           /\ (ur_parts # <<>> /\ FirstKind = "MultiPart"
                 /\ \E i \in 1..Len(ur_parts) : Rejected(ur_parts[i]))
                 => ~call.complete
           /\ (ur_parts # <<>> /\ FirstKind = "SinglePart") => call.complete

C5_Witness ==
    /\ call.fn = "is_complete"
    /\ MultiPartSet
    /\ Len(ur_parts) = 3
    /\ FirstKind = "MultiPart"
    /\ to_lowercase(ur_parts[2]) = Garbage
    /\ {to_lowercase(ur_parts[1]), to_lowercase(ur_parts[3])}
          = {to_lowercase(encoded.val[i]) : i \in 1..SetSize}
    /\ ~call.complete

\* C6: a payload whose CBOR blob is at most 200 bytes long (200 included)
\* encodes to exactly one string, which classifies as SinglePart, and
\* is_complete of that list is true.
C6_SinglePartFraming ==
    (HasSet /\ Len(cbor_to_vec(payload).val) <= 200)
        => /\ SetSize = 1
           /\ ur_decode(to_lowercase(encoded.val[1])).ok
           /\ ur_decode(to_lowercase(encoded.val[1])).val.kind = "SinglePart"
           /\ (call.fn = "is_complete" /\ ur_parts = encoded.val) => call.complete

C6_Witness ==
    /\ HasSet
    /\ Len(cbor_to_vec(payload).val) = 200
    /\ SetSize = 1
    /\ ur_parts = encoded.val
    /\ call.fn = "is_complete"
    /\ call.complete

\* C7: when the probe reports multi-part, the list encode returns has more
\* than one string and as many as the encoder's fragment_count.
C7_MultiPartCount ==
    (HasSet /\ probe.is_multi_part)
        => (SetSize > 1 /\ SetSize = probe.count)

C7_Witness ==
    /\ HasSet
    /\ probe.is_multi_part
    /\ probe.count = 3
    /\ SetSize = 3

\* C8: on every ordering of a whole multi-part Fragment Set, decode_bytes
\* gives the payload and is_complete is true.
C8_OrderIndependence ==
    (MultiPartSet /\ IsPermutation)
        => /\ call.fn = "decode_bytes" => call.result = Ok(payload)
           /\ call.fn = "is_complete" => call.complete

C8_Witness ==
    /\ MultiPartSet
    /\ SetSize = 3
    /\ IsPermutation
    /\ to_lowercase(ur_parts[1]) = to_lowercase(encoded.val[3])
    /\ to_lowercase(ur_parts[2]) = to_lowercase(encoded.val[1])
    /\ call.fn = "decode_bytes"
    /\ call.result = Ok(payload)

\* The answer of the function last called, on another list.
Answer(fn, list) ==
    IF fn = "decode_bytes"
    THEN [fn |-> fn, result |-> decode_bytes(list), complete |-> FALSE]
    ELSE IF fn = "decode_hex"
    THEN [fn |-> fn, result |-> decode_hex(list), complete |-> FALSE]
    ELSE [fn |-> fn, result |-> Err("", ""), complete |-> is_complete(list)]

\* C9: the answer of decode_bytes, decode_hex and is_complete on a list is
\* the answer on the same list with every string in lower case, in upper
\* case and in mixed case; so any two re-casings of a list get one answer.
C9_CaseInsensitive ==
    call.fn # "none"
        => \A c \in Casings : Answer(call.fn, RecaseAll(ur_parts, c)) = call

C9_Witness ==
    /\ MultiPartSet
    /\ SetSize = 3
    /\ casing = "rotate"
    /\ IsPermutation
    /\ call.fn = "decode_bytes"
    /\ call.result = Ok(payload)

IsLowerHex(text) ==
    \A i \in 1..Len(text) :
        (text[i] >= 48 /\ text[i] <= 57) \/ (text[i] >= 97 /\ text[i] <= 102)

\* C10: decode_hex succeeds exactly when decode_bytes does, with the
\* lower-case hex text of the same bytes, and fails with the same error kind;
\* encode_hex of a well-formed hex text is encode_bytes of the bytes it spells.
C10_HexBytesAgree ==
    /\ call.fn = "decode_hex"
          => LET bytes == decode_bytes(ur_parts)
             IN  /\ call.result.ok <=> bytes.ok
                 /\ bytes.ok => /\ call.result.val = hex_encode(bytes.val)
                                /\ IsLowerHex(call.result.val)
                                /\ hex_decode(call.result.val) = bytes
                 /\ ~bytes.ok => call.result.kind = bytes.kind
    /\ (via = "hex" /\ hex_decode(hex_payload).ok)
          => encoded = encode_bytes(hex_decode(hex_payload).val, NoFault)

C10_Witness ==
    /\ via = "hex"
    /\ hex_decode(hex_payload).ok
    /\ ~IsLowerHex(hex_payload)
    /\ SetSize = 2
    /\ ur_parts = encoded.val
    /\ call.fn = "decode_hex"
    /\ call.result.ok
    /\ call.result.val = hex_encode(payload)

\* The part the encoder hands out at its i-th next_part call for the
\* caller's payload.
PartOf(encoder, i) ==
    next_part([encoder EXCEPT !.current_sequence = i - 1], NoFault).part.val
EncoderPart(i) ==
    PartOf(Encoder_new(cbor_to_vec(payload).val, MAX_FRAGMENT_LENGTH, UR_TYPE), i)

\* C11: in the multi-part case with fragment count c and no failing pull, the
\* returned list is the encoder's parts 1..c in call order (the probe's first
\* part, then the c-1 parts the loop pulled), each in its own place, and the
\* encoder has handed out exactly c parts when the loop ends.
C11_ExactPullSequence ==
    (HasSet /\ probe.is_multi_part)
        => /\ SetSize = probe.count
           /\ probe.pulled = probe.count
           /\ LET encoder == Encoder_new(cbor_to_vec(payload).val,
                                         MAX_FRAGMENT_LENGTH, UR_TYPE)
              IN  \A i \in 1..SetSize :
                     encoded.val[i] = to_uppercase(PartOf(encoder, i))

C11_Witness ==
    /\ HasSet
    /\ probe.is_multi_part
    /\ probe.count = 3
    /\ probe.pulled = 3
    /\ encoded.val[3] = to_uppercase(EncoderPart(3))
    /\ encoded.val[1] # encoded.val[3]

\* C18: every string of a list returned by encode_bytes or encode_hex, at
\* every position, is entirely upper-case: upper-casing it changes nothing.
C18_UpperCaseEmission ==
    encoded.ok
        => \A i \in 1..Len(encoded.val) :
              /\ encoded.val[i].casing = "upper"
              /\ to_uppercase(encoded.val[i]) = encoded.val[i]

C18_Witness ==
    /\ HasSet
    /\ via = "hex"
    /\ Len(encoded.val) >= 2
    /\ \A i \in 1..Len(encoded.val) : encoded.val[i].casing = "upper"

\* The texts the caller's list spells, and the texts of the Fragment Set.
Members(list) == {to_lowercase(list[i]) : i \in 1..Len(list)}
OwnMembers == Members(encoded.val)

\* The caller's list is built only from a strict subset of the Fragment Set,
\* in any order, with any repetition, of any length.
FromStrictSubset ==
    /\ ur_parts # <<>>
    /\ Members(ur_parts) \subseteq OwnMembers
    /\ Members(ur_parts) # OwnMembers

\* The caller's list holds the whole Fragment Set and at least one duplicate.
FullSetWithDuplicates ==
    /\ Members(ur_parts) = OwnMembers
    /\ Len(ur_parts) > SetSize

\* C17: for a multi-part Fragment Set, a list built only from a strict subset
\* of its strings is never complete and decode_bytes fails on it with
\* Incomplete, whatever its order, repetition or length; a list holding the
\* whole set plus duplicates decodes to the payload.
C17_StrictSubsetNeverSuffices ==
    MultiPartSet
        => /\ (FromStrictSubset /\ call.fn = "is_complete") => ~call.complete
           /\ (FromStrictSubset /\ call.fn = "decode_bytes")
                 => (~call.result.ok /\ call.result.kind = "Incomplete")
           /\ (FullSetWithDuplicates /\ call.fn = "decode_bytes")
                 => call.result = Ok(payload)
           /\ (FullSetWithDuplicates /\ call.fn = "is_complete") => call.complete

\* Three strings, all the same fragment of a set of three: as long as the set,
\* and still incomplete.
C17_Witness ==
    /\ MultiPartSet
    /\ SetSize = 3
    /\ Len(ur_parts) = 3
    /\ FromStrictSubset
    /\ Cardinality(Members(ur_parts)) = 1
    /\ call.fn = "decode_bytes"
    /\ call.result.kind = "Incomplete"

\* The first entry of the caller's list, lower-cased, is classified as `kind`.
FirstIs(kind) ==
    /\ ur_parts # <<>>
    /\ ur_decode(to_lowercase(ur_parts[1])).ok
    /\ ur_decode(to_lowercase(ur_parts[1])).val.kind = kind

\* The session after the first k entries of a list went to a fresh session,
\* and what receive answers to entry i after the i-1 before it.
RECURSIVE SessionAfter(_, _)
SessionAfter(list, k) ==
    IF k = 0 THEN Decoder_default
    ELSE receive(SessionAfter(list, k - 1), to_lowercase(list[k])).decoder
ReceiveAt(list, i) == receive(SessionAfter(list, i - 1), to_lowercase(list[i])).result

\* Entry i is the first entry of the list that receive rejects.
RejectedAt(list, i) ==
    /\ \A j \in 1..(i - 1) : ReceiveAt(list, j).ok
    /\ ~ReceiveAt(list, i).ok

\* C12: when the first entry is MultiPart and receive rejects an entry,
\* decode_bytes fails with UrError carrying that entry's error, the entries
\* after it make no difference to the result (the list cut after the rejected
\* entry gives the same), the error is never Incomplete, and is_complete is
\* false; also when the other entries form a complete set.
C12_ReceiveFailureAborts ==
    FirstIs("MultiPart")
        => \A i \in 1..Len(ur_parts) :
              RejectedAt(ur_parts, i)
                  => /\ call.fn = "decode_bytes"
                          => /\ call.result = Err("UrError", ReceiveAt(ur_parts, i).msg)
                             /\ call.result = decode_bytes(SubSeq(ur_parts, 1, i))
                     /\ call.fn = "is_complete" => ~call.complete

\* The whole set with a text outside the grammar between its two fragments.
C12_Witness ==
    /\ ur_parts = <<WideSet[1], Garbage, WideSet[2]>>
    /\ RejectedAt(ur_parts, 2)
    /\ call.fn = "decode_bytes"
    /\ ~call.result.ok
    /\ call.result.kind = "UrError"

\* C13: when the first entry is SinglePart, decode_bytes of the list is
\* decode_bytes of the first entry alone and is_complete is true, whatever
\* the remaining entries are.
C13_SinglePartFirstOnly ==
    FirstIs("SinglePart")
        => /\ call.fn = "decode_bytes" => call.result = decode_bytes(<<ur_parts[1]>>)
           /\ call.fn = "is_complete" => call.complete

\* A single-part string followed by a text outside the grammar and by a
\* fragment of a multi-part set.
C13_Witness ==
    /\ ur_parts = <<OtherSingle, Garbage, WideSet[1]>>
    /\ FirstIs("SinglePart")
    /\ call.fn = "decode_bytes"
    /\ call.result = Ok(Payload(15, 1))

\* A decode result that got past the feed stage: success, a failure of the
\* CBOR unwrapping, or a failure of the message extraction from a complete
\* session.
PastFeedStage(r) ==
    \/ r.ok
    \/ r.kind = "CborError"
    \/ /\ r.kind = "UrError"
       /\ r.msg \in {"invalid padding", "invalid checksum", "No message"}

\* C16: is_complete of a list is true exactly when decode_bytes of the same
\* list succeeds or fails only in message extraction or CBOR unwrapping;
\* it is false exactly when decode_bytes fails on the empty list, in the
\* classification of the first entry, in a receive, or with Incomplete.
C16_ProberAgreesWithDriver ==
    call.fn = "is_complete"
        => (call.complete <=> PastFeedStage(decode_bytes(ur_parts)))

\* A complete session whose message does not match its checksum: the prober
\* says true and the driver fails in the extraction.
C16_Witness ==
    /\ ur_parts = <<WideSet[1], Tampered(WideSet[2])>>
    /\ call.fn = "is_complete"
    /\ call.complete
    /\ decode_bytes(ur_parts) = Err("UrError", "invalid checksum")

\* The last encode call got as far as the probe: it was made, and its hex
\* text, if any, was well formed.
ReachedProbe ==
    /\ via # "none"
    /\ via = "hex" => hex_decode(hex_payload).ok

\* The blob of the last encode call is multi-part, in so many fragments.
BlobIsMultiPart == Len(cbor_to_vec(payload).val) > MAX_FRAGMENT_LENGTH
BlobFragments ==
    fragment_count(Encoder_new(cbor_to_vec(payload).val, MAX_FRAGMENT_LENGTH, UR_TYPE))

\* The collaborator's failure lay on the path of the last encode call: the
\* probe failed, or the blob is multi-part and no encoder came with it, or
\* the failing part is one of the parts the call needs.
FaultHit ==
    \/ fault.at = "probe"
    \/ fault.at = "no_encoder" /\ BlobIsMultiPart
    \/ fault.at = "next_part" /\ BlobIsMultiPart /\ fault.k <= BlobFragments

\* C14: when the probe fails, or reports multi-part without an encoder, or
\* any next_part fails, at whatever position, the encode call returns UrError
\* and no list: none of the fragments collected before the failure.
C14_EncodeAllOrNothing ==
    (ReachedProbe /\ FaultHit)
        => /\ ~encoded.ok
           /\ encoded.kind = "UrError"
           /\ encoded.val = <<>>

\* The last of three parts fails, after two were collected.
C14_Witness ==
    /\ via = "bytes"
    /\ BlobFragments = 3
    /\ fault = NextPartFault(3)
    /\ probe.pulled = 3
    /\ ~encoded.ok
    /\ encoded.kind = "UrError"

\* The call of caller c has its answer.
Done(c, fn) == running[c].pc = "done" /\ running[c].fn = fn

\* C15: however the calls of the callers follow one another or overlap, the
\* answer of each call is the answer the same call gives alone: fragments
\* fed in one call are never counted in another.  In particular is_complete
\* on the first k < n fragments and is_complete on the remaining n-k are
\* both false.
C15_FreshSessionPerCall ==
    \A c \in Callers :
        /\ Done(c, "decode_bytes") => running[c].result = decode_bytes(running[c].list)
        /\ Done(c, "is_complete") => running[c].complete = is_complete(running[c].list)
        /\ Done(c, "encode_bytes")
              => running[c].result = encode_bytes(running[c].arg, NoFault)
        /\ \A k \in 1..(SetSize - 1) :
              (/\ Done(c, "is_complete")
               /\ running[c].list \in {SubSeq(encoded.val, 1, k),
                                       SubSeq(encoded.val, k + 1, SetSize)})
                  => ~running[c].complete

\* is_complete on the last two fragments, begun after a call that was fed
\* the first fragment only had returned, answers false.
C15_Witness ==
    \E c \in Callers :
        /\ Done(c, "is_complete")
        /\ running[c].list = SubSeq(encoded.val, 2, SetSize)
        /\ running[c].seen = {1}
        /\ ~running[c].complete

====
